---- MODULE Spec2Model ----
(***************************************************************************)
(* Model of imgname (src/imgname/__init__.py): the content sanitizer       *)
(* sanitize_content and the rename command.                                *)
(*                                                                         *)
(* Text is modelled as a sequence of one-character strings, so that the    *)
(* sanitizer's character-level steps are computed as the code computes     *)
(* them.                                                                   *)
(***************************************************************************)
EXTENDS Integers, Sequences, FiniteSets, TLC

(***************************************************************************)
(* Character classes used by sanitize_content.                             *)
(***************************************************************************)
\* the characters of content.strip: double quote, single quote, backquote
\* (the backquote character is written "BQ")
Quotes == {"\"", "'", "BQ"}

\* the ASCII letters, each capital at the index of its small letter
LowerSeq ==
    << "a", "b", "c", "d", "e", "f", "g", "h", "i", "j", "k", "l", "m",
       "n", "o", "p", "q", "r", "s", "t", "u", "v", "w", "x", "y", "z" >>
UpperSeq ==
    << "A", "B", "C", "D", "E", "F", "G", "H", "I", "J", "K", "L", "M",
       "N", "O", "P", "Q", "R", "S", "T", "U", "V", "W", "X", "Y", "Z" >>
DigitSeq == << "0", "1", "2", "3", "4", "5", "6", "7", "8", "9" >>

LowerLetters == {LowerSeq[i] : i \in DOMAIN LowerSeq}
UpperLetters == {UpperSeq[i] : i \in DOMAIN UpperSeq}
Digits == {DigitSeq[i] : i \in DOMAIN DigitSeq}
\* characters matched by \s
Whitespace == {" ", "\t", "\n"}
\* characters matched by \w: alphanumerics and the underscore
WordChars == LowerLetters \cup UpperLetters \cup Digits \cup {"_"}

\* str.lower() left out
LowerCharKeepsCase(c) == c

\* str.lower() on one character
LowerChar(c) ==
    IF c \in UpperLetters
    THEN LowerSeq[CHOOSE i \in DOMAIN UpperSeq : UpperSeq[i] = c]
    ELSE c

(***************************************************************************)
(* String helpers (str.strip, str.lower, re.sub, str.split, str.join).     *)
(***************************************************************************)
RECURSIVE LStrip(_, _)
LStrip(s, chars) ==
    IF s # <<>> /\ Head(s) \in chars THEN LStrip(Tail(s), chars) ELSE s

RECURSIVE RStrip(_, _)
RStrip(s, chars) ==
    IF s # <<>> /\ s[Len(s)] \in chars
    THEN RStrip(SubSeq(s, 1, Len(s) - 1), chars)
    ELSE s

\* str.strip(chars)
Strip(s, chars) == RStrip(LStrip(s, chars), chars)

\* str.lower()
Lower(s) == [i \in 1..Len(s) |-> LowerChar(s[i])]

IsKept(c) == c \in WordChars \/ c \in Whitespace \/ c = "-"

\* re.sub(r"[^\w\s-]", "", s)
RemoveSpecial(s) == SelectSeq(s, IsKept)

IsSeparator(c) == c \in Whitespace \/ c = "-"

\* re.sub(r"[\s-]+", "_", s): every maximal run of separators becomes one "_"
RECURSIVE CollapseSeparators(_)
CollapseSeparators(s) ==
    IF s = <<>> THEN <<>>
    ELSE IF IsSeparator(Head(s))
         THEN <<"_">> \o CollapseSeparators(LStrip(s, Whitespace \cup {"-"}))
         ELSE <<Head(s)>> \o CollapseSeparators(Tail(s))

\* str.split(sep): the pieces between occurrences of sep, empty pieces included
RECURSIVE SplitAcc(_, _, _)
SplitAcc(s, sep, cur) ==
    IF s = <<>> THEN <<cur>>
    ELSE IF Head(s) = sep
         THEN <<cur>> \o SplitAcc(Tail(s), sep, <<>>)
         ELSE SplitAcc(Tail(s), sep, Append(cur, Head(s)))

Split(s, sep) == SplitAcc(s, sep, <<>>)

IsNonEmptyWord(w) == w # <<>>

\* sep.join(words)
RECURSIVE Join(_, _)
Join(words, sep) ==
    IF words = <<>> THEN <<>>
    ELSE IF Len(words) = 1 THEN Head(words)
         ELSE Head(words) \o <<sep>> \o Join(Tail(words), sep)

\* the word limit of sanitize_content
MaxWords == 3

\* words = [w for w in content.split("_") if w]
CleanWords(content) == SelectSeq(Split(content, "_"), IsNonEmptyWord)

\* the slice taken from the wrong end: words[-3:]
LimitWordsLastThree(words) ==
    IF Len(words) > MaxWords
    THEN SubSeq(words, Len(words) - MaxWords + 1, Len(words))
    ELSE words

\* if len(words) > 3: words = words[:3]
LimitWords(words) ==
    IF Len(words) > MaxWords THEN SubSeq(words, 1, MaxWords) ELSE words

\* the fallback literal
Fallback == <<"i", "m", "a", "g", "e">>

\* the fallback left out
EnsureNonEmptyMissing(content) == content

\* if not content: content = "image"
EnsureNonEmpty(content) == IF content = <<>> THEN Fallback ELSE content

\* the content after the cleaning steps, before the word limit
Cleaned(content) ==
    Strip(CollapseSeparators(RemoveSpecial(Lower(Strip(content, Quotes)))), {"_"})

sanitize_content(content) ==
    EnsureNonEmpty(Join(LimitWords(CleanWords(Cleaned(content))), "_"))

(***************************************************************************)
(* Inputs of the sanitizer.                                                *)
(***************************************************************************)
\* longest input text handed to the sanitizer
MaxLen == 7

\* one representative of every character class the sanitizer distinguishes
Alphabet == {"a", "B", "_", " ", "-", "'"}

(***************************************************************************)
(* get_utc_timestamp: the modification time, in whole seconds since the    *)
(* epoch, as the 14 characters YYYYMMDDHHMMSS in UTC.                      *)
(***************************************************************************)
DigitChar(d) == ToString(d)

\* the decimal digits of n, most significant first
RECURSIVE Decimal(_)
Decimal(n) == IF n < 10 THEN <<DigitChar(n)>> ELSE Append(Decimal(n \div 10), DigitChar(n % 10))

\* zero-padded field of the given width (%Y, %m, %d, %H, %M, %S)
RECURSIVE ZeroPad(_, _)
ZeroPad(s, width) == IF Len(s) >= width THEN s ELSE ZeroPad(<<"0">> \o s, width)

\* datetime.fromtimestamp(mtime, tz=timezone.utc): the proleptic Gregorian
\* date and the time of day of the given second
UtcDateTime(mtime) ==
    LET days == mtime \div 86400
        secs == mtime % 86400
        z    == days + 719468
        era  == z \div 146097
        doe  == z - era * 146097
        yoe  == (doe - doe \div 1460 + doe \div 36524 - doe \div 146096) \div 365
        doy  == doe - (365 * yoe + yoe \div 4 - yoe \div 100)
        mp   == (5 * doy + 2) \div 153
        d    == doy - (153 * mp + 2) \div 5 + 1
        m    == IF mp < 10 THEN mp + 3 ELSE mp - 9
        y    == yoe + era * 400 + (IF m <= 2 THEN 1 ELSE 0)
    IN  [year |-> y, month |-> m, day |-> d,
         hour |-> secs \div 3600, minute |-> (secs % 3600) \div 60, second |-> secs % 60]

\* dt.strftime("%Y%m%d%H%M%S")
get_utc_timestamp(mtime) ==
    LET dt == UtcDateTime(mtime) IN
    ZeroPad(Decimal(dt.year), 4) \o ZeroPad(Decimal(dt.month), 2)
        \o ZeroPad(Decimal(dt.day), 2) \o ZeroPad(Decimal(dt.hour), 2)
        \o ZeroPad(Decimal(dt.minute), 2) \o ZeroPad(Decimal(dt.second), 2)

(***************************************************************************)
(* Paths.  Every path of a run lies in the parent directory of image_path, *)
(* so a path is modelled by its file name, a sequence of characters.       *)
(***************************************************************************)
\* index of the last "." of name, 0 when there is none
RECURSIVE LastDot(_, _)
LastDot(name, i) ==
    IF i = 0 THEN 0 ELSE IF name[i] = "." THEN i ELSE LastDot(name, i - 1)

\* Path.suffix
Suffix(name) ==
    LET i == LastDot(name, Len(name)) IN
    IF 1 < i /\ i < Len(name) THEN SubSeq(name, i, Len(name)) ELSE <<>>

\* file_ext = ".jpg" when the path has no suffix
DefaultExt == <<".", "j", "p", "g">>

\* f"{timestamp}_{content}{file_ext}"
BaseName(ts, c, ext) == ts \o <<"_">> \o c \o ext

\* f"{timestamp}_{content}_{counter}{file_ext}"
CounterName(ts, c, k, ext) == ts \o <<"_">> \o c \o <<"_">> \o Decimal(k) \o ext

(***************************************************************************)
(* The directory: a function from the names that exist to their entries.   *)
(***************************************************************************)
FileEntry(data, mtime) == [kind |-> "file", data |-> data, mtime |-> mtime]
DirEntry == [kind |-> "dir", data |-> "", mtime |-> 0]

\* Path.exists()
Exists(dir, name) == name \in DOMAIN dir

\* Path.is_file()
IsFile(dir, name) == name \in DOMAIN dir /\ dir[name].kind = "file"

Put(dir, name, entry) ==
    [n \in DOMAIN dir \cup {name} |-> IF n = name THEN entry ELSE dir[n]]

Remove(dir, name) == [n \in DOMAIN dir \ {name} |-> dir[n]]

\* a rename that replaces a regular file at the target on every platform
RenameFileReplaces(dir, src, dst, os) ==
    IF ~Exists(dir, src) THEN [ok |-> FALSE, dir |-> dir]
    ELSE IF dst = src THEN [ok |-> TRUE, dir |-> dir]
    ELSE IF Exists(dir, dst) /\ dir[dst].kind = "dir"
         THEN [ok |-> FALSE, dir |-> dir]
         ELSE [ok |-> TRUE, dir |-> Put(Remove(dir, src), dst, dir[src])]

\* Path.rename(target): the outcome and the directory afterwards.  An
\* existing regular file at the target is replaced on POSIX and refused on
\* Windows; a directory at the target is refused on both; renaming a file
\* to its own name changes nothing.
RenameFile(dir, src, dst, os) ==
    IF ~Exists(dir, src) THEN [ok |-> FALSE, dir |-> dir]
    ELSE IF dst = src THEN [ok |-> TRUE, dir |-> dir]
    ELSE IF Exists(dir, dst) /\ (dir[dst].kind = "dir" \/ os = "windows")
         THEN [ok |-> FALSE, dir |-> dir]
         ELSE [ok |-> TRUE, dir |-> Put(Remove(dir, src), dst, dir[src])]

\* shutil.copy2(src, dst) for a dst that is no directory (the probing loop
\* passes over directories, and other processes create regular files):
\* SameFileError when dst is src, otherwise dst gets the data and the
\* modification time of src, replacing a regular file already there.
CopyFile(dir, src, dst) ==
    IF ~Exists(dir, src) \/ dst = src THEN [ok |-> FALSE, dir |-> dir]
    ELSE [ok |-> TRUE, dir |-> Put(dir, dst, dir[src])]

(***************************************************************************)
(* Inputs of a run of rename.                                              *)
(***************************************************************************)
\* modification times of the source: 2024-01-02T03:04:05Z, 2000-02-29T00:00:00Z
Mtimes == {1704164645, 951782400}

\* largest counter of a name that exists before the run
MaxCounter == 2

\* most steps another process takes during a run
MaxOther == 2

Cat == <<"c", "a", "t">>

\* texts the vision model answers with; they sanitize to cat, cat_1, image
Responses ==
    { <<"C", "a", "t">>,
      <<" ", "'", "c", "a", "t", " ", "1", "!", "'", "\n">>,
      <<"!", "!">> }

\* names of the form the tool gives, for the source's timestamp
Slots(ts) ==
    {BaseName(ts, Cat, DefaultExt)}
        \cup {CounterName(ts, Cat, k, DefaultExt) : k \in 1..MaxCounter}

\* names the source may have
SourceNames(ts) ==
    { <<"p", ".", "j", "p", "g">>, <<"p">>,
      BaseName(ts, Cat, DefaultExt), CounterName(ts, Cat, 1, DefaultExt) }

VARIABLES
    raw, result, spc,        \* the sanitizer's input, its result, its caller
    fs,                      \* the parent directory
    image_path, in_place,    \* the arguments of rename
    os,                      \* the platform the tool runs on
    pc,                      \* the position of the run
    file_ext, timestamp, content, new_filename, counter,
    exit_code,               \* the exit status, -1 while running
    fs0,                     \* the directory when the run started
    pre,                     \* the directory when the file operation ran
    probed,                  \* the names tested by the probing loop
    op,                      \* the file operation performed
    failure,                 \* why the run failed
    created, others          \* names other processes created; their steps

svars == <<raw, result, spc>>

rvars == <<fs, image_path, in_place, os, pc, file_ext, timestamp, content,
           new_filename, counter, exit_code, fs0, pre, probed, op, failure,
           created, others>>

vars == <<svars, rvars>>

Empty == [n \in {} |-> DirEntry]

Range(f) == {f[i] : i \in DOMAIN f}

\* no run of rename
RenameIdle ==
    /\ fs = Empty /\ fs0 = Empty /\ pre = Empty
    /\ image_path = <<>> /\ in_place = FALSE /\ os = "posix"
    /\ pc = "idle"
    /\ file_ext = <<>> /\ timestamp = <<>> /\ content = <<>>
    /\ new_filename = <<>> /\ counter = 0 /\ exit_code = -1
    /\ probed = <<>> /\ op = "none" /\ failure = "none"
    /\ created = {} /\ others = 0

\* no call of the sanitizer from outside a run
SanitizerIdle == raw = <<>> /\ result = <<>> /\ spc = "idle"

(***************************************************************************)
(* The sanitizer called on its own.                                        *)
(***************************************************************************)
SanInit ==
    /\ raw = <<>>
    /\ result = <<>>
    /\ spc = "input"
    /\ RenameIdle

\* the caller extends the text by one character
TypeChar ==
    /\ spc = "input"
    /\ Len(raw) < MaxLen
    /\ \E c \in Alphabet : raw' = Append(raw, c)
    /\ UNCHANGED <<result, spc, rvars>>

\* sanitize_content(raw) is called and returns
CallSanitize ==
    /\ spc = "input"
    /\ result' = sanitize_content(raw)
    /\ spc' = "returned"
    /\ UNCHANGED <<raw, rvars>>

SanNext == TypeChar \/ CallSanitize

SanSpec == SanInit /\ [][SanNext]_vars

(***************************************************************************)
(* A run of the rename command.                                            *)
(***************************************************************************)
Init ==
    /\ SanitizerIdle
    /\ in_place \in BOOLEAN
    /\ os \in {"posix", "windows"}
    /\ \E m \in Mtimes :
         LET ts == get_utc_timestamp(m) IN
         /\ image_path \in SourceNames(ts)
         /\ \E kind \in {"file", "dir", "none"} :
            \E files \in SUBSET (Slots(ts) \ {image_path}) :
            \E dirs \in SUBSET (Slots(ts) \ ({image_path} \cup files)) :
              fs = [n \in files \cup dirs \cup (IF kind = "none" THEN {} ELSE {image_path}) |->
                      IF n = image_path
                      THEN (IF kind = "file" THEN FileEntry("image", m) ELSE DirEntry)
                      ELSE IF n \in files THEN FileEntry("other", m) ELSE DirEntry]
    /\ fs0 = fs
    /\ pre = Empty
    /\ pc = "parse"
    /\ file_ext = <<>> /\ timestamp = <<>> /\ content = <<>>
    /\ new_filename = <<>> /\ counter = 0 /\ exit_code = -1
    /\ probed = <<>> /\ op = "none" /\ failure = "none"
    /\ created = {} /\ others = 0

\* exit status of a usage error raised by the argument parser
UsageExit == 2

Exit(code, why) ==
    /\ exit_code' = code
    /\ failure' = why
    /\ pc' = "done"

\* typer.Argument(exists=True, file_okay=True, dir_okay=False): the argument
\* parser rejects a path that is missing or a directory before the body runs
ParseArgs ==
    /\ pc = "parse"
    /\ IF IsFile(fs, image_path)
       THEN pc' = "validate" /\ UNCHANGED <<exit_code, failure>>
       ELSE Exit(UsageExit, "usage")
    /\ UNCHANGED <<svars, fs, image_path, in_place, os, file_ext, timestamp, content,
                   new_filename, counter, fs0, pre, probed, op, created, others>>

\* if not image_path.is_file(): Exit(1); then the extension, ".jpg" by default
Validate ==
    /\ pc = "validate"
    /\ IF IsFile(fs, image_path)
       THEN /\ file_ext' = (IF Suffix(image_path) = <<>> THEN DefaultExt
                            ELSE Suffix(image_path))
            /\ pc' = "timestamp"
            /\ UNCHANGED <<exit_code, failure>>
       ELSE Exit(1, "not_a_file") /\ UNCHANGED file_ext
    /\ UNCHANGED <<svars, fs, image_path, in_place, os, timestamp, content,
                   new_filename, counter, fs0, pre, probed, op, created, others>>

\* timestamp = get_utc_timestamp(image_path); stat raises when the file is
\* gone, and the exception is not caught
Timestamp ==
    /\ pc = "timestamp"
    /\ IF Exists(fs, image_path)
       THEN /\ timestamp' = get_utc_timestamp(fs[image_path].mtime)
            /\ pc' = "analyze"
            /\ UNCHANGED <<exit_code, failure>>
       ELSE Exit(1, "stat") /\ UNCHANGED timestamp
    /\ UNCHANGED <<svars, fs, image_path, in_place, os, file_ext, content,
                   new_filename, counter, fs0, pre, probed, op, created, others>>

\* analyze_image: response.message.content.strip(), then sanitize_content
analyze_image(response) == sanitize_content(Strip(response, Whitespace))

\* the model is sent the image file, answers, and the answer is sanitized
AnalyzeOk ==
    /\ pc = "analyze"
    /\ IsFile(fs, image_path)
    /\ \E r \in Responses : content' = analyze_image(r)
    /\ pc' = "compose"
    /\ UNCHANGED <<svars, fs, image_path, in_place, os, file_ext, timestamp,
                   new_filename, counter, exit_code, fs0, pre, probed, op, failure,
                   created, others>>

\* the exception swallowed and the run carried on with the fallback content
AnalyzeFailIgnored ==
    /\ pc = "analyze"
    /\ content' = Fallback
    /\ failure' = "analysis"
    /\ pc' = "compose"
    /\ UNCHANGED <<svars, fs, image_path, in_place, os, file_ext, timestamp,
                   new_filename, counter, exit_code, fs0, pre, probed, op,
                   created, others>>

\* the model call raises: except Exception: ... raise typer.Exit(1)
AnalyzeFail ==
    /\ pc = "analyze"
    /\ Exit(1, "analysis")
    /\ UNCHANGED <<svars, fs, image_path, in_place, os, file_ext, timestamp, content,
                   new_filename, counter, fs0, pre, probed, op, created, others>>

\* new_filename = f"{timestamp}_{content}{file_ext}"
Compose ==
    /\ pc = "compose"
    /\ new_filename' = BaseName(timestamp, content, file_ext)
    /\ pc' = "resolve"
    /\ UNCHANGED <<svars, fs, image_path, in_place, os, file_ext, timestamp, content,
                   counter, exit_code, fs0, pre, probed, op, failure, created, others>>

\* the collision check left out
NoCollisionCheck(dir, name, src) == FALSE

\* if new_path.exists() and new_path != image_path
Collides(dir, name, src) == Exists(dir, name) /\ name # src

Resolve ==
    /\ pc = "resolve"
    /\ IF Collides(fs, new_filename, image_path)
       THEN counter' = 1 /\ pc' = "probe"
       ELSE pc' = "execute" /\ UNCHANGED counter
    /\ UNCHANGED <<svars, fs, image_path, in_place, os, file_ext, timestamp, content,
                   new_filename, exit_code, fs0, pre, probed, op, failure, created,
                   others>>

\* a counter that skips a value
NextCounterSkips(k) == k + 2

\* a counter that is never advanced
NextCounterStuck(k) == k

\* counter += 1
NextCounter(k) == k + 1

\* one test of while new_path.exists(), and the loop body when it holds
Probe ==
    /\ pc = "probe"
    /\ probed' = Append(probed, new_filename)
    /\ IF Exists(fs, new_filename)
       THEN /\ new_filename' = CounterName(timestamp, content, counter, file_ext)
            /\ counter' = NextCounter(counter)
            /\ pc' = "probe"
       ELSE pc' = "execute" /\ UNCHANGED <<new_filename, counter>>
    /\ UNCHANGED <<svars, fs, image_path, in_place, os, file_ext, timestamp, content,
                   exit_code, fs0, pre, op, failure, created, others>>

\* the file operation always a copy
AlwaysCopy(dir, src, dst, inplace, platform) == CopyFile(dir, src, dst)

\* if in_place: image_path.rename(new_path) else: shutil.copy2(image_path, new_path)
FileOperation(dir, src, dst, inplace, platform) ==
    IF inplace THEN RenameFile(dir, src, dst, platform) ELSE CopyFile(dir, src, dst)

\* the file operation; an exception it raises ends the run with status 1
Execute ==
    /\ pc = "execute"
    /\ LET r == FileOperation(fs, image_path, new_filename, in_place, os) IN
       /\ fs' = r.dir
       /\ exit_code' = (IF r.ok THEN 0 ELSE 1)
       /\ failure' = (IF r.ok THEN failure ELSE "operation")
    /\ pre' = fs
    /\ op' = (IF in_place THEN "rename" ELSE "copy")
    /\ pc' = "done"
    /\ UNCHANGED <<svars, image_path, in_place, os, file_ext, timestamp, content,
                   new_filename, counter, fs0, probed, created, others>>

Next ==
    \/ ParseArgs
    \/ Validate
    \/ Timestamp
    \/ AnalyzeOk
    \/ AnalyzeFail
    \/ Compose
    \/ Resolve
    \/ Probe
    \/ Execute

\* one run, nothing else touching the directory
Spec == Init /\ [][Next]_vars

\* the run is a sequential program: every step but the blocking model call
\* is taken once it is enabled
FairSpec ==
    /\ Spec
    /\ WF_vars(ParseArgs) /\ WF_vars(Validate) /\ WF_vars(Timestamp)
    /\ WF_vars(Compose) /\ WF_vars(Resolve) /\ WF_vars(Probe) /\ WF_vars(Execute)

(***************************************************************************)
(* Other processes working in the same directory during the run.           *)
(***************************************************************************)
\* another process creates a regular file at the name the run has computed
OtherCreates ==
    /\ pc \in {"resolve", "probe", "execute"}
    /\ others < MaxOther
    /\ ~Exists(fs, new_filename)
    /\ fs' = Put(fs, new_filename, FileEntry("theirs", 0))
    /\ created' = created \cup {new_filename}
    /\ others' = others + 1
    /\ UNCHANGED <<svars, image_path, in_place, os, pc, file_ext, timestamp, content,
                   new_filename, counter, exit_code, fs0, pre, probed, op, failure>>

\* another process removes the source file
OtherRemovesSource ==
    /\ pc \in {"validate", "timestamp", "analyze", "compose", "resolve", "probe", "execute"}
    /\ others < MaxOther
    /\ Exists(fs, image_path)
    /\ fs' = Remove(fs, image_path)
    /\ others' = others + 1
    /\ UNCHANGED <<svars, image_path, in_place, os, pc, file_ext, timestamp, content,
                   new_filename, counter, exit_code, fs0, pre, probed, op, failure,
                   created>>

RaceNext == Next \/ OtherCreates \/ OtherRemovesSource

RaceSpec == Init /\ [][RaceNext]_vars

(***************************************************************************)
(* Properties of sanitize_content.                                         *)
(***************************************************************************)
Alnum == LowerLetters \cup UpperLetters \cup Digits

Delimiters == Whitespace \cup {"-", "_"}

\* Reference reading of a text as words, in one pass over the raw input:
\* delimiters end a word, alphanumerics extend it in lower case, every
\* other character is dropped.
RECURSIVE RefWordsAcc(_, _)
RefWordsAcc(s, cur) ==
    IF s = <<>> THEN (IF cur = <<>> THEN <<>> ELSE <<cur>>)
    ELSE IF Head(s) \in Delimiters
         THEN (IF cur = <<>> THEN <<>> ELSE <<cur>>) \o RefWordsAcc(Tail(s), <<>>)
         ELSE IF Head(s) \in Alnum
              THEN RefWordsAcc(Tail(s), Append(cur, LowerChar(Head(s))))
              ELSE RefWordsAcc(Tail(s), cur)

RefWords(s) == RefWordsAcc(s, <<>>)

Underscores(s) == {i \in 1..Len(s) : s[i] = "_"}

C7_FirstThreeWords ==
    spc = "returned" =>
        LET w == RefWords(raw) IN
        /\ Len(w) > 3 => result = w[1] \o <<"_">> \o w[2] \o <<"_">> \o w[3]
        /\ Len(w) = 3 => result = w[1] \o <<"_">> \o w[2] \o <<"_">> \o w[3]
        /\ Len(w) = 2 => result = w[1] \o <<"_">> \o w[2]
        /\ Len(w) = 1 => result = w[1]

C7_Witness ==
    /\ spc = "returned"
    /\ raw = <<"a", " ", "B", "_", "a", "-", "B">>
    /\ result = <<"a", "_", "b", "_", "a">>

\* C8: an input with no alphanumeric character (empty, whitespace only, or
\* only quotes, punctuation, hyphens and underscores) yields "image".
C8_FallbackWhenEmpty ==
    (spc = "returned" /\ \A i \in 1..Len(raw) : raw[i] \notin Alnum)
        => result = Fallback

C8_Witness ==
    /\ spc = "returned"
    /\ raw = <<" ", "'", "-", "'", "_">>
    /\ result = Fallback

(***************************************************************************)
(* Properties of rename.                                                   *)
(***************************************************************************)
\* the candidate name and the names with a counter, for the run's values
Candidate == BaseName(timestamp, content, file_ext)
Numbered(k) == CounterName(timestamp, content, k, file_ext)

Resolved == pc \in {"execute", "done"}

\* C2: when an entry exists at {timestamp}_{content}{ext} and that path is
\* not the source, the resolved target is {timestamp}_{content}_{k}{ext} for
\* the smallest k >= 1 whose path does not exist; the loop tests the
\* candidate and then the counters 1, 2, ..., k in this order, skipping none.
C2_SmallestFreeCounter ==
    (Resolved /\ Exists(fs0, Candidate) /\ Candidate # image_path) =>
        LET k == counter - 1 IN
        /\ k >= 1
        /\ new_filename = Numbered(k)
        /\ ~Exists(fs0, Numbered(k))
        /\ \A j \in 1..(k - 1) : Exists(fs0, Numbered(j))
        /\ probed = <<Candidate>> \o [j \in 1..k |-> Numbered(j)]

C2_Witness ==
    /\ pc = "done"
    /\ Exists(fs0, Candidate) /\ Candidate # image_path
    /\ Exists(fs0, Numbered(1))
    /\ new_filename = Numbered(2)

\* C3 as stated: after a successful in-place run the source path no longer
\* exists and the new path exists with the source's content.
C3_SourcePathGone ==
    (pc = "done" /\ in_place /\ exit_code = 0) =>
        /\ ~Exists(fs, image_path)
        /\ Exists(fs, new_filename)
        /\ fs[new_filename] = fs0[image_path]

\* C3 amended: after a successful in-place run the new path exists with the
\* source's content, and the source path no longer exists unless the new
\* path is the source path itself, in which case nothing has changed.
C3_MovedUnlessSameName ==
    (pc = "done" /\ in_place /\ exit_code = 0) =>
        /\ Exists(fs, new_filename)
        /\ fs[new_filename] = fs0[image_path]
        /\ new_filename # image_path => ~Exists(fs, image_path)
        /\ new_filename = image_path => fs = fs0

C3_Witness ==
    /\ pc = "done" /\ in_place /\ exit_code = 0
    /\ new_filename # image_path
    /\ ~Exists(fs, image_path)
    /\ fs[new_filename] = fs0[image_path]

\* C4: in copy mode every run of a valid source whose analysis succeeds
\* performs the copy and leaves the source unchanged: both paths exist with
\* identical content afterwards, also when the candidate name is the
\* source's own name.
C4_CopyPerformed ==
    (pc = "done" /\ ~in_place /\ op = "copy") =>
        /\ exit_code = 0
        /\ Exists(fs, image_path) /\ fs[image_path] = fs0[image_path]
        /\ Exists(fs, new_filename) /\ fs[new_filename] = fs0[image_path]

\* the other process put a file at the resolved target, which is not the
\* source's own path, before the rename ran, and the source was in place
RacedTarget ==
    /\ pc = "done" /\ in_place /\ op = "rename"
    /\ new_filename \in created /\ Exists(pre, new_filename)
    /\ new_filename # image_path /\ Exists(pre, image_path)

\* C5 as stated: when another process creates the resolved target between
\* Resolve and Execute, the in-place rename fails with status 1, the other
\* process's entry is not overwritten and the source stays intact.
C5_RaceFails ==
    RacedTarget =>
        /\ exit_code = 1
        /\ fs[new_filename] = pre[new_filename]
        /\ Exists(fs, image_path) /\ fs[image_path] = pre[image_path]

\* C5 amended: in that case the rename fails with status 1 and leaves both
\* entries as they were only where the platform refuses an existing target
\* (Windows); on POSIX it succeeds with status 0, the other process's file
\* is replaced by the source and the source path is gone.
C5_RaceOutcomeByPlatform ==
    RacedTarget =>
        IF os = "windows"
        THEN exit_code = 1 /\ fs = pre
        ELSE /\ exit_code = 0
             /\ fs[new_filename] = pre[image_path]
             /\ ~Exists(fs, image_path)

C5_Witness == RacedTarget /\ os = "windows" /\ exit_code = 1

Stage(p) ==
    CASE p \in {"parse", "validate"} -> 1
      [] p \in {"timestamp", "analyze"} -> 2
      [] p = "compose" -> 3
      [] p \in {"resolve", "probe"} -> 4
      [] p = "execute" -> 5
      [] p = "done" -> 6

\* C10: without other writers the probing loop ends after at most (number
\* of entries + 1) tests, a run never goes back to an earlier stage, and
\* every run whose model call returns reaches a terminal state, with exit
\* status 0 or 1.
C10_Terminates ==
    /\ [](Len(probed) <= Cardinality(DOMAIN fs0) + 1)
    /\ [][Stage(pc') >= Stage(pc)]_vars
    /\ [](pc = "done" /\ timestamp # <<>> => exit_code \in {0, 1})
    /\ (<>(pc = "done") \/ <>[](pc = "analyze"))

C10_Witness ==
    /\ pc = "done"
    /\ Len(probed) = Cardinality(DOMAIN fs0) + 1

====
